---------------------------- MODULE Spec2Model ----------------------------
(***************************************************************************)
(* Model of the metrics analysis scripts of raft-distributed-key-vault:    *)
(*   analyze_metrics.py   MetricsAnalyzer: election START/END pairing,      *)
(*                        election latencies, JSON report                   *)
(*   benchmarks/plot.py   plot_latency_cdf (merged percentiles per group),  *)
(*                        plot_throughput_vs_requests, write_summary,       *)
(*                        write_results_md (grouped aggregation)            *)
(* The three parts share no state; each has its own specification.          *)
(* Timestamps are instants in integer milliseconds (the value that          *)
(* datetime.fromisoformat yields for the CSV string).                       *)
(***************************************************************************)
EXTENDS Integers, Sequences, FiniteSets, TLC

VARIABLES
    \* ---- analyze_metrics.py ----
    events,            \* self.events: the rows of the CSV, in file order
    idx,               \* number of events the loop of get_elections has consumed
    elections,         \* local `elections` of get_elections
    current_election,  \* local `current_election` of get_elections
    result,            \* the list get_elections returned
    latencies,         \* the list calculate_election_latencies returned
    report,            \* the dict export_json_report dumps
    pc,                \* position of main() in analyze_metrics.py
    \* ---- benchmarks/plot.py: plot_latency_cdf ----
    lat_csv_paths,     \* the argument: base names of the latency files, split at '_'
    disk,              \* what pd.read_csv finds in each file
    groups,            \* dict "<scenario>_<req>" -> list of paths
    by_req,            \* dict req -> dict scenario -> list of paths
    req_pos,           \* position of `for req, scen_map in by_req.items()`
    percentiles_rows,  \* the list of row dicts
    main_curves,       \* curves plotted on the main figure of the current req
    tail_curves,       \* curves plotted on the tail figure of the current req
    tail_xmax,         \* upper x limit of the last tail figure, in 1e-4 ms
    pct_df,            \* the table written to percentiles.csv (None: not written)
    cpc,               \* position in plot_latency_cdf
    \* ---- benchmarks/plot.py: aggregate.csv ----
    df,                \* the DataFrame main() loads and hands to every function
    agg,               \* `agg` of plot_throughput_vs_requests (the plotted groups)
    summary,           \* the table written to summary.csv
    apc                \* position of main() in plot.py

varsE == <<events, idx, elections, current_election, result, latencies, report, pc>>
varsC == <<lat_csv_paths, disk, groups, by_req, req_pos, percentiles_rows,
           main_curves, tail_curves, tail_xmax, pct_df, cpc>>
varsA == <<df, agg, summary, apc>>
vars == <<varsE, varsC, varsA>>

\* Bounds of the model.
MaxEvents == 4
MaxTime == 1
MaxFiles == 3     \* latency files handed to plot_latency_cdf (SpecC)
MaxRuns == 2      \* latency files of the one group of SpecP
MaxSamples == 3   \* rows of a latency file of SpecP
MaxRows == 2      \* rows of aggregate.csv (SpecA)
MaxStrLen == 2    \* characters of a non-numeric totalRequests cell (SpecA)

(***************************************************************************)
(* Python values.                                                           *)
(***************************************************************************)
None == [py |-> "None"]
EmptyDict == <<>>
Truthy(v) == v # None /\ v # EmptyDict

CountWhere(s, P(_)) == Cardinality({k \in DOMAIN s : P(s[k])})

(***************************************************************************)
(* analyze_metrics.py                                                       *)
(***************************************************************************)
EventTypes == {"ELECTION_START", "ELECTION_END", "WRITE_REQUEST"}
NodeIds == {"8080"}

\* A row of the CSV as csv.DictReader yields it; `row` is its position in the
\* file and stands for the identity of the dict object.
EventRow(i, t, ts, n) == [row |-> i, event_type |-> t, timestamp |-> ts, node_id |-> n]

\* The CSV files of n rows: f gives each row its type, timestamp and node.
EventFields(n) == [1..n -> EventTypes \X (0..MaxTime) \X NodeIds]
EventStream(n, f) == [i \in 1..n |-> EventRow(i, f[i][1], f[i][2], f[i][3])]

\* ElectionStep without line 57: the interval stays open after its END.
ElectionStepNoReset(st, event) ==
    IF event.event_type = "ELECTION_START"
    THEN [st EXCEPT !.current_election = [start |-> event, end |-> None]]
    ELSE IF event.event_type = "ELECTION_END"
    THEN IF Truthy(st.current_election)
         THEN [elections |-> Append(st.elections, [st.current_election EXCEPT !.end = event]),
               current_election |-> [st.current_election EXCEPT !.end = event]]
         ELSE st
    ELSE st

\* ElectionStep with a START that is ignored while an interval is open.
ElectionStepKeepFirst(st, event) ==
    IF event.event_type = "ELECTION_START"
    THEN IF Truthy(st.current_election) THEN st
         ELSE [st EXCEPT !.current_election = [start |-> event, end |-> None]]
    ELSE IF event.event_type = "ELECTION_END"
    THEN IF Truthy(st.current_election)
         THEN [elections |-> Append(st.elections, [st.current_election EXCEPT !.end = event]),
               current_election |-> EmptyDict]
         ELSE st
    ELSE st

\* One iteration of the loop of get_elections on `event`, from the locals `st`.
ElectionStep(st, event) ==
    IF event.event_type = "ELECTION_START"
    THEN [st EXCEPT !.current_election = [start |-> event, end |-> None]]
    ELSE IF event.event_type = "ELECTION_END"
    THEN IF Truthy(st.current_election)
         THEN [elections |-> Append(st.elections, [st.current_election EXCEPT !.end = event]),
               current_election |-> EmptyDict]
         ELSE st
    ELSE st

RECURSIVE ElectionLoop(_, _, _)
ElectionLoop(st, evs, i) ==
    IF i > Len(evs) THEN st ELSE ElectionLoop(ElectionStep(st, evs[i]), evs, i + 1)

get_elections(evs) ==
    ElectionLoop([elections |-> <<>>, current_election |-> EmptyDict], evs, 1).elections

\* (end_time - start_time).total_seconds() * 1000
LatencyMs(election) == election.end.timestamp - election.start.timestamp

RECURSIVE LatencyLoop(_)
LatencyLoop(els) ==
    IF els = <<>> THEN <<>>
    ELSE IF Truthy(Head(els).end)
         THEN <<LatencyMs(Head(els))>> \o LatencyLoop(Tail(els))
         ELSE LatencyLoop(Tail(els))

calculate_election_latencies(evs) == LatencyLoop(get_elections(evs))

get_event_counts(evs) ==
    [t \in {evs[k].event_type : k \in DOMAIN evs} |->
        Cardinality({k \in DOMAIN evs : evs[k].event_type = t})]

get_node_ids(evs) == {evs[k].node_id : k \in DOMAIN evs}

ReportOf(evs) ==
    [event_counts |-> get_event_counts(evs),
     total_events |-> Len(evs),
     nodes |-> get_node_ids(evs),
     elections |-> Len(get_elections(evs)),
     election_latencies_ms |-> calculate_election_latencies(evs),
     writes |-> Cardinality({k \in DOMAIN evs : evs[k].event_type = "WRITE_REQUEST"}),
     reads |-> Cardinality({k \in DOMAIN evs : evs[k].event_type = "READ_REQUEST"})]

\* MetricsAnalyzer(csv_file): load_csv has read the rows; get_elections is entered.
AnalyzerState(evs, at) ==
    /\ events = evs
    /\ idx = 0
    /\ elections = <<>>
    /\ current_election = EmptyDict
    /\ result = None
    /\ latencies = None
    /\ report = None
    /\ pc = at

AnalyzerEntry(evs) == AnalyzerState(evs, "get_elections")

\* One iteration of `for event in self.events` in get_elections.
ProcessEvent ==
    /\ pc = "get_elections"
    /\ idx < Len(events)
    /\ LET st == ElectionStep([elections |-> elections,
                               current_election |-> current_election], events[idx + 1])
       IN /\ elections' = st.elections
          /\ current_election' = st.current_election
    /\ idx' = idx + 1
    /\ UNCHANGED <<events, result, latencies, report, pc>>

\* `return elections` at the end of the stream.
ReturnElections ==
    /\ pc = "get_elections"
    /\ idx = Len(events)
    /\ result' = elections
    /\ pc' = "latencies"
    /\ UNCHANGED <<events, idx, elections, current_election, latencies, report>>

CalculateLatencies ==
    /\ pc = "latencies"
    /\ latencies' = calculate_election_latencies(events)
    /\ pc' = "export"
    /\ UNCHANGED <<events, idx, elections, current_election, result, report>>

ExportJsonReport ==
    /\ pc = "export"
    /\ report' = ReportOf(events)
    /\ pc' = "done"
    /\ UNCHANGED <<events, idx, elections, current_election, result, latencies>>

(***************************************************************************)
(* benchmarks/plot.py: plot_latency_cdf                                     *)
(***************************************************************************)
Scenarios == {"raft", "base"}
Reqs == {"req100", "req500"}
Reps == {"rep1", "rep2"}

\* os.path.basename(path).split('_') of SCENARIO_reqXXX_durYY_repZ_latencies.csv
LatName(scenario, req, rep) == <<scenario, req, "dur10", rep, "latencies.csv">>
\* A file main() also collects (it ends in _latencies.csv) with fewer than 4 parts.
ShortName == <<"warmup", "latencies.csv">>
LatNames == {LatName(s, r, z) : s \in Scenarios, r \in Reqs, z \in Reps} \cup {ShortName}

\* What lat.iloc[:,1].astype(float).values gives for a file: the values of its
\* second column, or an exception (ok = FALSE) when the file cannot be read,
\* is empty, has no second column or holds a non-numeric cell.
Unparsable == [ok |-> FALSE, vals |-> <<>>]
Parsed(vals) == [ok |-> TRUE, vals |-> vals]

\* Python dicts keep insertion order: a dict is a sequence of [k, v] entries.
DictHas(d, k) == \E i \in DOMAIN d : d[i].k = k
DictPos(d, k) == CHOOSE i \in DOMAIN d : d[i].k = k
DictGet(d, k) == d[DictPos(d, k)].v
DictSetDefault(d, k, v0) == IF DictHas(d, k) THEN d ELSE Append(d, [k |-> k, v |-> v0])
DictPut(d, k, v) == [DictSetDefault(d, k, v) EXCEPT ![DictPos(DictSetDefault(d, k, v), k)].v = v]

\* Lines 74-83: group the paths by "<scenario>_<req>".
RECURSIVE GroupPathsLoop(_, _, _)
GroupPathsLoop(g, paths, i) ==
    IF i > Len(paths) THEN g
    ELSE LET parts == paths[i]
         IN IF Len(parts) < 4
            THEN GroupPathsLoop(g, paths, i + 1)
            ELSE LET key == <<parts[1], parts[2]>>
                     g1 == DictSetDefault(g, key, <<>>)
                 IN GroupPathsLoop(DictPut(g1, key, Append(DictGet(g1, key), paths[i])),
                                   paths, i + 1)

\* Lines 86-89: regroup by request size, then scenario.
RECURSIVE ByReqLoop(_, _, _)
ByReqLoop(b, g, i) ==
    IF i > Len(g) THEN b
    ELSE LET scenario == g[i].k[1]
             req == g[i].k[2]
             b1 == DictSetDefault(b, req, <<>>)
             m1 == DictSetDefault(DictGet(b1, req), scenario, <<>>)
             m2 == DictPut(m1, scenario, DictGet(m1, scenario) \o g[i].v)
         IN ByReqLoop(DictPut(b1, req, m2), g, i + 1)

\* The inner `for f in files` with its try/except: the arrays of the files
\* that parse, in file order.
RECURSIVE ReadAll(_, _)
ReadAll(d, files) ==
    IF files = <<>> THEN <<>>
    ELSE IF d[Head(files)].ok
         THEN <<d[Head(files)].vals>> \o ReadAll(d, Tail(files))
         ELSE ReadAll(d, Tail(files))

\* np.concatenate
RECURSIVE Concatenate(_)
Concatenate(arrays) ==
    IF arrays = <<>> THEN <<>> ELSE Head(arrays) \o Concatenate(Tail(arrays))

\* np.sort
RECURSIVE InsertSorted(_, _)
InsertSorted(x, s) ==
    IF s = <<>> THEN <<x>>
    ELSE IF x <= Head(s) THEN <<x>> \o s
         ELSE <<Head(s)>> \o InsertSorted(x, Tail(s))

RECURSIVE Sort(_)
Sort(s) == IF s = <<>> THEN <<>> ELSE InsertSorted(Head(s), Sort(Tail(s)))

\* np.percentile(a, q) with linear interpolation; q is given in tenths of a
\* percent (50 % = 500, 99.9 % = 999) and the result is in 1e-4 ms:
\* rank = q/100 * (n-1), interpolated between floor(rank) and ceil(rank).
Percentile(a, q) ==
    LET srt == Sort(a)
        n == Len(srt)
        lo == (q * (n - 1)) \div 1000
        frac == (q * (n - 1)) % 1000
        hi == IF frac = 0 THEN lo ELSE lo + 1
    IN srt[lo + 1] * 10000 + frac * 10 * (srt[hi + 1] - srt[lo + 1])

\* round(x, 3): from 1e-4 ms to the nearest 1e-3 ms, ties to even.
Round3(x) ==
    LET q == x \div 10
        r == x % 10
    IN IF r < 5 THEN q
       ELSE IF r > 5 THEN q + 1
       ELSE IF q % 2 = 0 THEN q ELSE q + 1

\* Lines 110-121: the row of one group, from its concatenated values.
PercentileRow(scenario, req, vals_concat) ==
    [scenario |-> scenario,
     request_group |-> req,
     p50_ms |-> Round3(Percentile(vals_concat, 500)),
     p90_ms |-> Round3(Percentile(vals_concat, 900)),
     p95_ms |-> Round3(Percentile(vals_concat, 950)),
     p99_ms |-> Round3(Percentile(vals_concat, 990))]

\* MergedVals with `vals` in place of np.concatenate(all_vals): the values
\* of the last file read alone.
MergedValsLastFile(d, files) ==
    IF ReadAll(d, files) = <<>> THEN <<>> ELSE ReadAll(d, files)[Len(ReadAll(d, files))]

\* Lines 95-105: the values of a group, merged over its files.
MergedVals(d, files) == Concatenate(ReadAll(d, files))

\* GroupRows with the row appended inside `for f in files`: one row per
\* parsed file, over the values read so far.
RECURSIVE RowsPerPrefix(_, _, _, _)
RowsPerPrefix(scenario, req, arrays, k) ==
    IF k > Len(arrays) THEN <<>>
    ELSE <<PercentileRow(scenario, req, Concatenate(SubSeq(arrays, 1, k)))>>
            \o RowsPerPrefix(scenario, req, arrays, k + 1)

GroupRowsPerFile(d, scenario, req, files) ==
    RowsPerPrefix(scenario, req, ReadAll(d, files), 1)

\* Lines 94-121 for one scenario: the rows it appends (none when no file parsed).
GroupRows(d, scenario, req, files) ==
    IF ReadAll(d, files) = <<>> THEN <<>>
    ELSE <<PercentileRow(scenario, req, MergedVals(d, files))>>

\* The curve plt.plot draws for one scenario: the sorted values (the CDF's
\* y value of the i-th point is i/n).
GroupCurve(d, scenario, files) ==
    IF ReadAll(d, files) = <<>> THEN <<>>
    ELSE <<[label |-> scenario, xs |-> Sort(MergedVals(d, files))]>>

RECURSIVE MainRows(_, _, _)
MainRows(d, req, scen_map) ==
    IF scen_map = <<>> THEN <<>>
    ELSE GroupRows(d, Head(scen_map).k, req, Head(scen_map).v)
            \o MainRows(d, req, Tail(scen_map))

RECURSIVE Curves(_, _)
Curves(d, scen_map) ==
    IF scen_map = <<>> THEN <<>>
    ELSE GroupCurve(d, Head(scen_map).k, Head(scen_map).v) \o Curves(d, Tail(scen_map))

\* Line 153 reads every file of every scenario again, outside any try.
RECURSIVE AllFiles(_)
AllFiles(scen_map) ==
    IF scen_map = <<>> THEN <<>> ELSE Head(scen_map).v \o AllFiles(Tail(scen_map))

TailReadRaises(d, scen_map) ==
    \E i \in DOMAIN AllFiles(scen_map) : ~d[AllFiles(scen_map)[i]].ok

RECURSIVE ReadAllUnguarded(_, _)
ReadAllUnguarded(d, files) ==
    IF files = <<>> THEN <<>> ELSE d[Head(files)].vals \o ReadAllUnguarded(d, Tail(files))

\* pd.DataFrame(rows).drop_duplicates(): the first of each run of equal rows.
RECURSIVE DropDuplicates(_)
DropDuplicates(rows) ==
    IF rows = <<>> THEN <<>>
    ELSE LET init == DropDuplicates(SubSeq(rows, 1, Len(rows) - 1))
             last == rows[Len(rows)]
         IN IF \E i \in DOMAIN init : init[i] = last THEN init ELSE Append(init, last)

Max(a, b) == IF a >= b THEN a ELSE b

\* Entry of plot_latency_cdf(lat_csv_paths, outdir).
CdfState(paths, d, at) ==
    /\ lat_csv_paths = paths
    /\ disk = d
    /\ groups = <<>>
    /\ by_req = <<>>
    /\ req_pos = 0
    /\ percentiles_rows = <<>>
    /\ main_curves = <<>>
    /\ tail_curves = <<>>
    /\ tail_xmax = 0
    /\ pct_df = None
    /\ cpc = at

CdfEntry(paths, d) == CdfState(paths, d, "group")

\* Lines 74-89.
GroupPaths ==
    /\ cpc = "group"
    /\ groups' = GroupPathsLoop(<<>>, lat_csv_paths, 1)
    /\ by_req' = ByReqLoop(<<>>, groups', 1)
    /\ req_pos' = 1
    /\ cpc' = IF by_req' = <<>> THEN "table" ELSE "main"
    /\ UNCHANGED <<lat_csv_paths, disk, percentiles_rows, main_curves, tail_curves,
                   tail_xmax, pct_df>>

\* Lines 93-133: the main figure of the current req, and its rows.
MainPlot ==
    /\ cpc = "main"
    /\ main_curves' = Curves(disk, by_req[req_pos].v)
    /\ percentiles_rows' =
           percentiles_rows \o MainRows(disk, by_req[req_pos].k, by_req[req_pos].v)
    /\ cpc' = "tail"
    /\ UNCHANGED <<lat_csv_paths, disk, groups, by_req, req_pos, tail_curves,
                   tail_xmax, pct_df>>

\* Lines 136-151: the curves of the tail figure.
TailPlot ==
    /\ cpc = "tail"
    /\ tail_curves' = Curves(disk, by_req[req_pos].v)
    /\ cpc' = "xlim"
    /\ UNCHANGED <<lat_csv_paths, disk, groups, by_req, req_pos, percentiles_rows,
                   main_curves, tail_xmax, pct_df>>

\* Lines 153-167, every file parses: the x limit, then the next req.
TailLimits ==
    /\ cpc = "xlim"
    /\ ~TailReadRaises(disk, by_req[req_pos].v)
    /\ tail_xmax' = Max(10000,
                        Percentile(ReadAllUnguarded(disk, AllFiles(by_req[req_pos].v)), 999))
    /\ req_pos' = req_pos + 1
    /\ cpc' = IF req_pos = Len(by_req) THEN "table" ELSE "main"
    /\ UNCHANGED <<lat_csv_paths, disk, groups, by_req, percentiles_rows,
                   main_curves, tail_curves, pct_df>>

\* Line 153, some file of the req does not parse: the exception leaves
\* plot_latency_cdf (and main).
TailLimitsRaises ==
    /\ cpc = "xlim"
    /\ TailReadRaises(disk, by_req[req_pos].v)
    /\ cpc' = "aborted"
    /\ UNCHANGED <<lat_csv_paths, disk, groups, by_req, req_pos, percentiles_rows,
                   main_curves, tail_curves, tail_xmax, pct_df>>

\* Lines 169-179.
WriteTable ==
    /\ cpc = "table"
    /\ pct_df' = IF percentiles_rows # <<>> THEN DropDuplicates(percentiles_rows) ELSE None
    /\ cpc' = "done"
    /\ UNCHANGED <<lat_csv_paths, disk, groups, by_req, req_pos, percentiles_rows,
                   main_curves, tail_curves, tail_xmax>>

(***************************************************************************)
(* benchmarks/plot.py: the grouped aggregations over aggregate.csv          *)
(***************************************************************************)
\* A cell of the totalRequests column: an integer, NaN, or (in a column
\* pd.read_csv left as object dtype) the text of the cell.
IntCell(n) == [t |-> "int", n |-> n, s |-> <<>>]
NaN == [t |-> "nan", n |-> 0, s |-> <<>>]
StrCell(s) == [t |-> "str", n |-> 0, s |-> s]

Digits == {"0", "1", "2", "3", "4", "5", "6", "7", "8", "9"}
DigitValue(c) ==
    CASE c = "0" -> 0 [] c = "1" -> 1 [] c = "2" -> 2 [] c = "3" -> 3 [] c = "4" -> 4
      [] c = "5" -> 5 [] c = "6" -> 6 [] c = "7" -> 7 [] c = "8" -> 8 [] c = "9" -> 9

RECURSIVE ParseInt(_)
ParseInt(s) ==
    IF s = <<>> THEN 0 ELSE 10 * ParseInt(SubSeq(s, 1, Len(s) - 1)) + DigitValue(s[Len(s)])

\* pd.to_numeric(cell, errors='coerce')
ToNumeric(cell) ==
    IF cell.t # "str" THEN cell
    ELSE IF cell.s # <<>> /\ \A i \in DOMAIN cell.s : cell.s[i] \in Digits
         THEN IntCell(ParseInt(cell.s))
         ELSE NaN

\* df.groupby(['scenario','totalRequests']) of the throughput column: one
\* summary per key present, rows with a NaN key dropped. count, mean and std
\* are kept as n, the sum and the sum of squares; the CI half-width as
\* whether it is the constant 0.0 (n <= 1) or t.ppf(0.975, n-1)*std/sqrt(n).
RECURSIVE SumOver(_, _, _)
SumOver(d, rows, sq) ==
    IF rows = {} THEN 0
    ELSE LET r == CHOOSE x \in rows : TRUE
             v == d[r].throughput
         IN (IF sq THEN v * v ELSE v) + SumOver(d, rows \ {r}, sq)

GroupBy(d) ==
    LET keyed == {i \in DOMAIN d : d[i].totalRequests.t # "nan"}
        keys == {<<d[i].scenario, d[i].totalRequests>> : i \in keyed}
        members(k) == {i \in keyed : <<d[i].scenario, d[i].totalRequests>> = k}
    IN {[scenario |-> k[1], totalRequests |-> k[2], n |-> Cardinality(members(k)),
         sum |-> SumOver(d, members(k), FALSE), sumsq |-> SumOver(d, members(k), TRUE),
         ci95_is_zero |-> Cardinality(members(k)) <= 1] : k \in keys}

\* Line 29: df['totalRequests'] = pd.to_numeric(df['totalRequests'], errors='coerce')
CoerceTotalRequests(d) ==
    [i \in DOMAIN d |-> [d[i] EXCEPT !.totalRequests = ToNumeric(d[i].totalRequests)]]

AggState(d, at) ==
    /\ df = d
    /\ agg = {}
    /\ summary = {}
    /\ apc = at

AggEntry(d) == AggState(d, "plot")

\* plot_throughput_vs_requests(df, figs)
PlotThroughputVsRequests ==
    /\ apc = "plot"
    /\ df' = CoerceTotalRequests(df)
    /\ agg' = GroupBy(df')
    /\ apc' = "summary"
    /\ UNCHANGED summary

\* write_summary(df, figs), which main() calls last.
WriteSummary ==
    /\ apc = "summary"
    /\ summary' = GroupBy(df)
    /\ apc' = "done"
    /\ UNCHANGED <<df, agg>>

\* write_results_md(df, outdir): the same grouping, written to summary.csv
\* and RESULTS.md.
WriteResultsMd ==
    /\ apc = "summary"
    /\ summary' = GroupBy(df)
    /\ apc' = "done_md"
    /\ UNCHANGED <<df, agg>>

(***************************************************************************)
(* Specifications.                                                          *)
(***************************************************************************)
\* Sequences of k distinct elements of S.
DistinctSeqs(S, k) == {q \in [1..k -> S] : \A i, j \in 1..k : i # j => q[i] # q[j]}

\* Latency files of SpecC: some unparsable, some with one or two rows.
SmallContents == {Unparsable, Parsed(<<1>>), Parsed(<<4, 1>>)}

\* Latency values of SpecP, in ms.
SampleValues == {1, 4}
SampleContents ==
    {Unparsable} \cup UNION { {Parsed(v) : v \in [1..n -> SampleValues]} : n \in 1..MaxSamples }

\* The runs of one (scenario, req) group, in the order main() lists them.
RunNames == <<LatName("raft", "req100", "rep1"), LatName("raft", "req100", "rep2"),
              LatName("raft", "req100", "rep3"), LatName("raft", "req100", "rep4")>>

\* The part of the state a specification does not run.
IdleE == AnalyzerState(<<>>, "idle")
IdleC == CdfState(<<>>, <<>>, "idle")
IdleA == AggState(<<>>, "idle")

NextE ==
    \/ ProcessEvent /\ UNCHANGED <<varsC, varsA>>
    \/ ReturnElections /\ UNCHANGED <<varsC, varsA>>
    \/ CalculateLatencies /\ UNCHANGED <<varsC, varsA>>
    \/ ExportJsonReport /\ UNCHANGED <<varsC, varsA>>

NextC ==
    \/ GroupPaths /\ UNCHANGED <<varsE, varsA>>
    \/ MainPlot /\ UNCHANGED <<varsE, varsA>>
    \/ TailPlot /\ UNCHANGED <<varsE, varsA>>
    \/ TailLimits /\ UNCHANGED <<varsE, varsA>>
    \/ TailLimitsRaises /\ UNCHANGED <<varsE, varsA>>
    \/ WriteTable /\ UNCHANGED <<varsE, varsA>>

NextA ==
    \/ PlotThroughputVsRequests /\ UNCHANGED <<varsE, varsC>>
    \/ WriteSummary /\ UNCHANGED <<varsE, varsC>>
    \/ WriteResultsMd /\ UNCHANGED <<varsE, varsC>>

\* analyze_metrics.py on any event stream.
InitE ==
    /\ \E n \in 0..MaxEvents : \E f \in EventFields(n) : AnalyzerEntry(EventStream(n, f))
    /\ IdleC
    /\ IdleA

SpecE == InitE /\ [][NextE]_vars

\* plot_latency_cdf on any list of distinct latency files.
InitC ==
    /\ IdleE
    /\ IdleA
    /\ \E k \in 0..MaxFiles :
         \E paths \in DistinctSeqs(LatNames, k) :
           \E d \in [{paths[i] : i \in 1..k} -> SmallContents] :
              CdfEntry(paths, d)

SpecC == InitC /\ [][NextC]_vars

\* plot_latency_cdf on the runs of one group.
InitP ==
    /\ IdleE
    /\ IdleA
    /\ \E k \in 1..MaxRuns :
         \E d \in [{RunNames[i] : i \in 1..k} -> SampleContents] :
            CdfEntry(SubSeq(RunNames, 1, k), d)

SpecP == InitP /\ [][NextC]_vars

\* The totalRequests column as pd.read_csv types it: numeric when every cell
\* is a number or empty, else object with every cell the text it held.
CellTexts == UNION { [1..n -> {"1", "0", "k"}] : n \in 1..MaxStrLen }
NumericColumn == {IntCell(10), IntCell(100), NaN}
ObjectColumn == {StrCell(s) : s \in CellTexts}
SampleRow(sc, c, th) ==
    [scenario |-> sc, totalRequests |-> c, throughput |-> th]
Tables(column) ==
    UNION { [1..n -> {SampleRow(sc, c, th) : sc \in Scenarios, c \in column, th \in {3, 5}}] :
              n \in 1..MaxRows }

\* main() of plot.py on any aggregate.csv.
InitA ==
    /\ IdleE
    /\ IdleC
    /\ \E d \in Tables(NumericColumn) \cup Tables(ObjectColumn) :
          /\ d \in Tables(ObjectColumn) =>
                 \E i \in DOMAIN d : ToNumeric(d[i].totalRequests) = NaN
          /\ AggEntry(d)

SpecA == InitA /\ [][NextA]_vars


(***************************************************************************)
(* Properties of the interval reconstructor (analyze_metrics.py).           *)
(***************************************************************************)
IsStart(e) == e.event_type = "ELECTION_START"
IsEnd(e) == e.event_type = "ELECTION_END"
IsElectionEvent(e) == IsStart(e) \/ IsEnd(e)
Returned == pc \in {"latencies", "export", "done"}
LatenciesDone == pc \in {"export", "done"}

\* The stream's START/END events alternate START, END, START, END, ...
ProperlyAlternating(evs) ==
    LET s == SelectSeq(evs, IsElectionEvent)
    IN /\ Len(s) % 2 = 0
       /\ \A k \in DOMAIN s : IF k % 2 = 1 THEN IsStart(s[k]) ELSE IsEnd(s[k])

\* Row of the last START/END event before row j (0 if there is none).
PrevElectionRow(evs, j) ==
    LET S == {i \in 1..(j - 1) : IsElectionEvent(evs[i])}
    IN IF S = {} THEN 0 ELSE CHOOSE i \in S : \A h \in S : h <= i

\* An END of row j is unmatched when no interval is open as it is read: the
\* START/END event before it, if any, is an END.
UnmatchedEndRows(evs, n) ==
    {j \in 1..n : /\ IsEnd(evs[j])
                  /\ LET p == PrevElectionRow(evs, j) IN p = 0 \/ IsEnd(evs[p])}

Closed(els) == {k \in DOMAIN els : Truthy(els[k].end)}
Open(els) == {k \in DOMAIN els : ~Truthy(els[k].end)}

\* C1: every interval get_elections emits has end.timestamp >= start.timestamp
\* (a pair whose END is earlier than its START is discarded, never emitted).
C1_EndNotBeforeStart ==
    \A k \in DOMAIN elections :
        Truthy(elections[k].end) =>
            elections[k].end.timestamp >= elections[k].start.timestamp

\* C2: a stream of N properly alternating START/END pairs, other events
\* interleaved, yields exactly N closed intervals, no open interval and no
\* unmatched END.
C2_AlternatingPairs ==
    (Returned /\ ProperlyAlternating(events)) =>
        /\ Cardinality(Closed(result)) = CountWhere(events, IsStart)
        /\ Len(result) = CountWhere(events, IsStart)
        /\ Open(result) = {}
        /\ ~Truthy(current_election)
        /\ CountWhere(events, IsEnd) - Len(result) = 0

C2_Witness ==
    /\ Returned
    /\ ProperlyAlternating(events)
    /\ Len(result) = 2

\* The numbers the exported report holds.
ReportNumbers(r) ==
    {r.total_events, r.elections, r.writes, r.reads, Len(r.election_latencies_ms)}
        \cup {r.event_counts[t] : t \in DOMAIN r.event_counts}

\* C3: an END read while no interval is open emits no interval, does not
\* abort the run, and is counted: the number of unmatched ENDs is a number
\* of the exported summary.
C3_UnmatchedEndCounted ==
    /\ \A j \in UnmatchedEndRows(events, idx) :
           \A k \in DOMAIN elections : elections[k].end.row # j
    /\ pc = "done" =>
           Cardinality(UnmatchedEndRows(events, Len(events))) \in ReportNumbers(report)

\* C4: an interval still open at the end of the stream is emitted with
\* end = None, and adds nothing to the latency list.
C4_OpenIntervalEmitted ==
    /\ (Returned /\ Truthy(current_election)) =>
           \E k \in DOMAIN result :
               result[k].start = current_election.start /\ result[k].end = None
    /\ LatenciesDone => Len(latencies) = Cardinality(Closed(result))

\* C5: each latency is end.timestamp - start.timestamp of a closed interval,
\* and a closed interval of latency <= 0 is left out of the list: every
\* value of the list is strictly positive.
C5_LatenciesPositive ==
    LatenciesDone =>
        /\ \A k \in DOMAIN latencies : latencies[k] > 0
        /\ \A k \in DOMAIN latencies :
               \E e \in DOMAIN result :
                   latencies[k] = result[e].end.timestamp - result[e].start.timestamp

\* C10: events are consumed in the order received; an END read while an
\* interval is open closes the interval begun by the most recent START before
\* it, with no START or END in between, and leaves no interval open; a START
\* read while an interval is open replaces it.
C10_MostRecentStart ==
    /\ \A k \in DOMAIN elections :
           LET e == elections[k]
           IN /\ IsStart(e.start) /\ IsEnd(e.end)
              /\ e.start = events[e.start.row] /\ e.end = events[e.end.row]
              /\ e.start.row < e.end.row /\ e.end.row <= idx
              /\ PrevElectionRow(events, e.end.row) = e.start.row
              /\ \A h \in DOMAIN elections : h < k => elections[h].end.row < e.start.row
    /\ \A j \in 1..idx :
           (IsEnd(events[j]) /\ j \notin UnmatchedEndRows(events, idx)) =>
               \E k \in DOMAIN elections : elections[k].end = events[j]
    /\ (idx > 0 /\ IsEnd(events[idx])) => current_election = EmptyDict
    /\ (idx > 0 /\ IsStart(events[idx])) =>
           current_election = [start |-> events[idx], end |-> None]
    /\ Truthy(current_election) =>
           /\ current_election.end = None
           /\ IsStart(current_election.start)
           /\ current_election.start.row = PrevElectionRow(events, idx + 1)

\* A START was read while an interval was open, and the next END closed the
\* interval of the later START.
C10_Witness ==
    \E k \in DOMAIN elections :
        /\ elections[k].start.row > 1
        /\ IsStart(events[elections[k].start.row - 1])
        /\ current_election = EmptyDict


(***************************************************************************)
(* Properties of the distribution analyzer (plot_latency_cdf).              *)
(***************************************************************************)
PathSet == {lat_csv_paths[i] : i \in DOMAIN lat_csv_paths}
KeyOf(path) == <<path[1], path[2]>>
RowKey(row) == <<row.scenario, row.request_group>>

\* The group keys with at least one file that parses.
GroupKeysWithData == {KeyOf(f) : f \in {g \in PathSet : Len(g) >= 4 /\ disk[g].ok}}

\* A main pass has run; the request sizes whose main pass has run.
MainPassDone == cpc \in {"tail", "xlim", "table", "done", "aborted"} /\ by_req # <<>>
ProcessedReqs ==
    IF cpc = "group" THEN {}
    ELSE {by_req[i].k : i \in {j \in DOMAIN by_req : j < req_pos \/ (j = req_pos /\ cpc # "main")}}
TableWritten == cpc = "done" /\ percentiles_rows # <<>>

\* The samples of a group: every row of every parsable file of the key.
Samples(key) ==
    UNION { {<<f, i>> : i \in DOMAIN disk[f].vals} :
              f \in {g \in PathSet : Len(g) >= 4 /\ KeyOf(g) = key /\ disk[g].ok} }
SampleValue(s) == disk[s[1]].vals[s[2]]

\* The k-th smallest value (k from 1) of a set of samples.
KthSmallest(S, k) ==
    LET vs == {SampleValue(s) : s \in S}
    IN CHOOSE v \in vs :
         /\ Cardinality({s \in S : SampleValue(s) < v}) < k
         /\ k <= Cardinality({s \in S : SampleValue(s) <= v})

\* The q/10 percent percentile of a set of samples, in 1e-4 ms: linear
\* interpolation between the closest ranks, rank = q/1000 * (n-1).
UnionPercentile(S, q) ==
    LET n == Cardinality(S)
        lo == (q * (n - 1)) \div 1000
        frac == (q * (n - 1)) % 1000
    IN IF frac = 0 THEN KthSmallest(S, lo + 1) * 10000
       ELSE KthSmallest(S, lo + 1) * 10000
              + frac * 10 * (KthSmallest(S, lo + 2) - KthSmallest(S, lo + 1))

\* x (in 1e-3 ms) is y (in 1e-4 ms) to three decimals.
ToThreeDecimals(x, y) == 10 * x - y <= 5 /\ y - 10 * x <= 5

RowIsOverUnion(row, key) ==
    /\ RowKey(row) = key
    /\ ToThreeDecimals(row.p50_ms, UnionPercentile(Samples(key), 500))
    /\ ToThreeDecimals(row.p90_ms, UnionPercentile(Samples(key), 900))
    /\ ToThreeDecimals(row.p95_ms, UnionPercentile(Samples(key), 950))
    /\ ToThreeDecimals(row.p99_ms, UnionPercentile(Samples(key), 990))

\* C6: a latency file that does not parse is skipped and never aborts the
\* run: plot_latency_cdf runs to completion, with a row for every group that
\* has a parsable file and none for a group that has not.
C6_UnparsableFileSkipped ==
    /\ cpc # "aborted"
    /\ cpc = "done" =>
           {RowKey(percentiles_rows[i]) : i \in DOMAIN percentiles_rows} = GroupKeysWithData

\* C7: the percentiles of a group are those of the union of the samples of
\* all its parsable files (a value that depends neither on the order of the
\* files nor on how the samples are split over them), never those of one file.
C7_PercentilesOverUnion ==
    MainPassDone =>
        /\ \A key \in GroupKeysWithData :
               key[2] \in ProcessedReqs =>
                   \E i \in DOMAIN percentiles_rows : RowIsOverUnion(percentiles_rows[i], key)
        /\ \A i \in DOMAIN percentiles_rows :
               /\ RowKey(percentiles_rows[i]) \in GroupKeysWithData
               /\ RowIsOverUnion(percentiles_rows[i], RowKey(percentiles_rows[i]))

\* Two files of 3 values each were merged into a 6-value array, and the
\* median of the merged array is the median of neither file.
C7_Witness ==
    /\ MainPassDone
    /\ Len(percentiles_rows) = 1
    /\ \E f, g \in PathSet :
         /\ f # g /\ disk[f].ok /\ disk[g].ok
         /\ Len(disk[f].vals) = 3 /\ Len(disk[g].vals) = 3
         /\ Cardinality(Samples(KeyOf(f))) = 6
         /\ percentiles_rows[1].p50_ms # Round3(Percentile(disk[f].vals, 500))
         /\ percentiles_rows[1].p50_ms # Round3(Percentile(disk[g].vals, 500))

\* C8: the percentile table written holds exactly one row for every group
\* key that has parsable data, and no other row, although the merged data of
\* each group is computed by the main pass and again by the tail pass.
C8_OneRowPerGroup ==
    TableWritten =>
        /\ \A key \in GroupKeysWithData :
               Cardinality({i \in DOMAIN pct_df : RowKey(pct_df[i]) = key}) = 1
        /\ \A i \in DOMAIN pct_df : RowKey(pct_df[i]) \in GroupKeysWithData

\* The table was written, with two rows, after both passes drew a group
\* merged from two parsable files.
C8_Witness ==
    /\ TableWritten
    /\ main_curves # <<>> /\ tail_curves # <<>>
    /\ \E f, g \in PathSet :
         f # g /\ Len(f) >= 4 /\ Len(g) >= 4 /\ KeyOf(f) = KeyOf(g) /\ disk[f].ok /\ disk[g].ok
    /\ Len(pct_df) = 2


(***************************************************************************)
(* Properties of the grouped aggregator.                                    *)
(***************************************************************************)
\* C9: the aggregations only read the sample table: no step of
\* plot_throughput_vs_requests, write_summary or write_results_md changes a
\* field (totalRequests included) of a sample.
C9_SamplesReadOnly == [][df' = df]_vars

=============================================================================
